---- MODULE Spec2Model ----
(***************************************************************************)
(* Model of the trajectory computation pipeline of the ballistics          *)
(* calculator backend: pydantic construction of CalculationRequest, the    *)
(* /api/calculate route, BallisticsService.calculate_trajectory (shot      *)
(* construction, set_weapon_zero, fire, step filtering) and                *)
(* _convert_trajectory_points.                                             *)
(*                                                                         *)
(* Numbers.  Request fields are integers in the unit that makes the        *)
(* declared bounds integral: sight_height, bc, bullet_diameter, pressure   *)
(* and humidity in tenths, everything else in whole units.  Distances of   *)
(* raw Solver points are exact rationals carried as an integer number of   *)
(* ticks, TicksPerYard ticks to the yard (Python's float % is exact, so    *)
(* d % step == 0.0 is "d is a whole multiple of step").  An Optional field *)
(* is a set: {} is None, {v} is the value v.  Energies are exact rationals *)
(* [num, den].  A str is a sequence of string fragments.                   *)
(***************************************************************************)
EXTENDS Integers, Sequences, FiniteSets, TLC

VARIABLES
    settings,           \* app.core.config.settings (read from the environment)
    pc,                 \* position of the request being handled
    request,            \* the body posted to /api/calculate
    shot,               \* the Shot object built by the service
    calls,              \* the calls made on self.calculator, in order
    exc,                \* the exception caught by the service's except clause
    zero_adjustment,    \* value returned by set_weapon_zero
    raw,                \* all_trajectory_points
    trajectory_data,    \* the filtered raw points
    response,           \* what the caller receives
    waiting,            \* connections sent by other clients, not yet accepted
    route               \* method and path of the request being handled

vars == <<settings, pc, request, shot, calls, exc, zero_adjustment, raw,
          trajectory_data, response, waiting, route>>

-----------------------------------------------------------------------------
(* Bounds of the model *)

\* longest raw point sequence the Solver returns
MaxPoints == 2
\* resolution of raw distances: ticks per yard
TicksPerYard == 10
\* the absolute tolerance "epsilon" of the specification's Sampler, in ticks
Eps == 2
\* most connections waiting to be accepted
MaxWaiting == 1

-----------------------------------------------------------------------------
(* app/core/config.py *)

\* MAX_RANGE_YARDS / MAX_STEP_SIZE: the defaults, and an environment override
SettingsValues ==
    { [MAX_RANGE_YARDS |-> 3000, MAX_STEP_SIZE |-> 100],
      [MAX_RANGE_YARDS |-> 1000, MAX_STEP_SIZE |-> 50] }

-----------------------------------------------------------------------------
(* app/models/__init__.py *)

DragModelEnum == {"G1", "G7"}

InRange(v, lo, hi) == v >= lo /\ v <= hi

Err(loc, ok) == IF ok THEN {} ELSE {loc}


\* a slip: sight_height declared without its ge= bound
WeaponErrors_NoLower(w) ==
    Err("weapon.sight_height", w.sight_height <= 100)
    \cup Err("weapon.twist", \A v \in w.twist : InRange(v, 1, 50))

\* Field(ge=.., le=..) of WeaponData
WeaponErrors(w) ==
    Err("weapon.sight_height", InRange(w.sight_height, 1, 100))
    \cup Err("weapon.twist", \A v \in w.twist : InRange(v, 1, 50))

\* Field(ge=.., le=..) of AmmoData
AmmoErrors(a) ==
    Err("ammo.bc", InRange(a.bc, 1, 20))
    \cup Err("ammo.drag_model", a.drag_model \in DragModelEnum)
    \cup Err("ammo.muzzle_velocity", InRange(a.muzzle_velocity, 500, 5000))
    \cup Err("ammo.bullet_weight", \A v \in a.bullet_weight : InRange(v, 20, 1000))
    \cup Err("ammo.bullet_diameter", \A v \in a.bullet_diameter : InRange(v, 1, 10))

\* Field(ge=.., le=..) of AtmosphericData
AtmosphereErrors(a) ==
    Err("atmosphere.temperature", InRange(a.temperature, -50, 150))
    \cup Err("atmosphere.pressure", InRange(a.pressure, 200, 350))
    \cup Err("atmosphere.humidity", InRange(a.humidity, 0, 10))
    \cup Err("atmosphere.altitude", InRange(a.altitude, 0, 20000))

\* Field(ge=.., le=..) of WindData
WindErrors(w) ==
    Err("wind.speed", InRange(w.speed, 0, 100))
    \cup Err("wind.direction", InRange(w.direction, 1, 12))

\* @validator('max_range'): runs on a max_range that passed its own bounds,
\* and compares only when zero_distance was accepted ('zero_distance' in values)
validate_max_range(v, zero_ok, zero_distance) ==
    ~(zero_ok /\ v <= zero_distance)

\* construction of CalculationRequest: the set of fields pydantic reports
SchemaErrors(r) ==
    LET zero_ok == InRange(r.zero_distance, 25, 500)
        max_ok  == InRange(r.max_range, 100, 3000)
    IN  WeaponErrors(r.weapon)
        \cup AmmoErrors(r.ammo)
        \cup AtmosphereErrors(r.atmosphere)
        \cup WindErrors(r.wind)
        \cup Err("zero_distance", zero_ok)
        \cup Err("max_range",
                 max_ok /\ validate_max_range(r.max_range, zero_ok, r.zero_distance))
        \cup Err("step_size", InRange(r.step_size, 1, 100))

-----------------------------------------------------------------------------
(* Responses *)

NoTrajectory == <<>>

Response(status, detail, errors, trajectory, zadj, success) ==
    [status |-> status, detail |-> detail, errors |-> errors,
     trajectory |-> trajectory, zero_adjustment |-> zadj, success |-> success]

\* FastAPI's answer to a body that fails construction of the request model
ValidationErrorResponse(errors) ==
    Response(422, <<"validation error">>, errors, NoTrajectory, 0, FALSE)

\* raise HTTPException(status_code=.., detail=..)
HTTPException(status, detail) ==
    [type |-> "HTTPException", status |-> status, text |-> detail]

ValueError(text) == [type |-> "ValueError", status |-> 0, text |-> text]

TypeError(text) == [type |-> "TypeError", status |-> 0, text |-> text]

\* an exception raised inside py_ballisticcalc
SolverError(text) == [type |-> "SolverError", status |-> 0, text |-> <<text>>]

NoException == [type |-> "none", status |-> 0, text |-> <<>>]

\* what the route's handler raises is what the caller gets
ErrorResponse(e) == Response(e.status, e.text, {}, NoTrajectory, 0, FALSE)

-----------------------------------------------------------------------------
(* Raw trajectory points, as py_ballisticcalc hands them over *)

\* the attribute names _convert_trajectory_points probes
FieldNames ==
    {"energy", "drop_adj", "drop_adjustment", "windage_adj", "windage_adjustment",
     "height", "slant_height", "y", "drop", "windage", "z"}

\* an attribute is absent (hasattr is False), None, a value the unit
\* conversion >> rejects, or a quantity
Kinds == {"absent", "none", "bad", "val"}

Attr(kind, v) == [kind |-> kind, v |-> v]

hasattr(point, f) == point.fields[f].kind # "absent"

\* point.<f> >> Unit: defined on a quantity, raises on None or a foreign value
Convertible(point, f) == point.fields[f].kind = "val"

Quantity(point, f) == point.fields[f].v

-----------------------------------------------------------------------------
(* app/services/ballistics.py *)

_get_drag_table(drag_model) ==
    IF drag_model = "G1" THEN "TableG1"
    ELSE IF drag_model = "G7" THEN "TableG7"
    ELSE "TableG1"

\* lines 39-77: DragModel, Ammo, Weapon, Atmo, Shot, optional Wind
BuildShot(r, id) ==
    [id |-> id,
     weapon |-> [sight_height |-> r.weapon.sight_height,
                 twist |-> r.weapon.twist],
     ammo |-> [bc |-> r.ammo.bc,
               drag_table |-> _get_drag_table(r.ammo.drag_model),
               mv |-> r.ammo.muzzle_velocity,
               powder_temp |-> r.atmosphere.temperature,
               bullet_weight |-> r.ammo.bullet_weight],
     atmo |-> [altitude |-> r.atmosphere.altitude,
               temperature |-> r.atmosphere.temperature,
               pressure |-> r.atmosphere.pressure,
               humidity |-> r.atmosphere.humidity],
     winds |-> IF r.wind.speed > 0
               THEN << [speed |-> r.wind.speed, direction |-> r.wind.direction] >>
               ELSE <<>>,
     zero_elevation |-> {}]


\* a slip: a fresh Shot is built for the fire step
ShotForFire_Rebuilt(s, r) == BuildShot(r, s.id + 1)

\* the shot object handed to calculator.fire (line 95): the local `shot`
ShotForFire(s, r) == s


\* a slip: the Solver is asked for its finest step, whatever the request says
FireArgs_SolverStep(r) ==
    [trajectory_range |-> r.max_range,
     trajectory_step |-> 1,
     extra_data |-> TRUE]

\* the keyword arguments of calculator.fire (lines 88-98), distances in yards
FireArgs(r) ==
    [trajectory_range |-> r.max_range,
     trajectory_step |-> r.step_size,
     extra_data |-> TRUE]

\* a call on self.calculator: the shot passed, as it was at the call and as
\* the Solver left it, the arguments, and how the call ended
Call(op, s, args) ==
    [op |-> op, shot |-> s, shot_after |-> s, args |-> args, outcome |-> "pending"]

\* a slip: the muzzle point is taken for one of the Solver's extra points
KeepPoint_PositiveOnly(distance, step_size) ==
    distance > 0 /\ distance % (step_size * TicksPerYard) = 0

\* line 116: distance == 0.0 or distance % step_size == 0.0
\* (distance in ticks, step_size in yards)
KeepPoint(distance, step_size) ==
    distance = 0 \/ distance % (step_size * TicksPerYard) = 0

\* lines 112-117
FilterPoints(points, step_size) ==
    SelectSeq(points, LAMBDA p : KeepPoint(p.distance, step_size))

\* first attribute of `order` the point has, "" when it has none
\* (an if hasattr / elif hasattr chain)
RECURSIVE FirstPresent(_, _)
FirstPresent(order, point) ==
    IF order = <<>> THEN ""
    ELSE IF hasattr(point, Head(order)) THEN Head(order)
    ELSE FirstPresent(Tail(order), point)


\* a slip: the chain probes drop first
DropOrder_DropFirst == <<"drop", "height", "slant_height", "y">>

\* lines 193-201: the elif chain for drop
DropOrder == <<"height", "slant_height", "y", "drop">>

\* lines 204-208
WindageOrder == <<"windage", "z">>

\* lines 179-183
DropAdjOrder == <<"drop_adj", "drop_adjustment">>

\* lines 186-190
WindageAdjOrder == <<"windage_adj", "windage_adjustment">>

\* an if/elif chain: whether its conversion raises, and the value it leaves
ChainRaises(order, point) ==
    LET f == FirstPresent(order, point)
    IN  f # "" /\ ~Convertible(point, f)

ChainValue(order, point) ==
    LET f == FirstPresent(order, point)
    IN  IF f = "" THEN 0 ELSE Quantity(point, f)

Rational(num, den) == [num |-> num, den |-> den]

\* lines 162-167: the Solver's energy, 0.0 when absent, None or not convertible
SolverEnergy(point) ==
    IF hasattr(point, "energy") /\ point.fields["energy"].kind # "none"
    THEN IF Convertible(point, "energy")
         THEN Rational(Quantity(point, "energy"), 1)
         ELSE Rational(0, 1)
    ELSE Rational(0, 1)

\* lines 173-176: 0.5 * (bullet_weight / 7000.0) * velocity_fps ** 2 / 32.174
\* = bullet_weight * velocity_fps^2 / (2 * 7000 * 32.174)
KineticEnergy(bullet_weight, velocity_fps) ==
    Rational(bullet_weight * velocity_fps * velocity_fps, 450436)


\* a slip: the manual energy replaces the Solver's whenever a weight is known
ExtractEnergy_Always(point, r) ==
    IF r.ammo.bullet_weight # {}
    THEN KineticEnergy(CHOOSE w \in r.ammo.bullet_weight : TRUE, point.velocity)
    ELSE SolverEnergy(point)

\* lines 162-176
ExtractEnergy(point, r) ==
    LET energy == SolverEnergy(point)
    IN  IF energy.num = 0 /\ r.ammo.bullet_weight # {}
        THEN KineticEnergy(CHOOSE w \in r.ammo.bullet_weight : TRUE, point.velocity)
        ELSE energy

\* lines 178-208: does one of the unguarded conversions raise
PointRaises(point) ==
    \/ ChainRaises(DropAdjOrder, point)
    \/ ChainRaises(WindageAdjOrder, point)
    \/ ChainRaises(DropOrder, point)
    \/ ChainRaises(WindageOrder, point)

\* lines 210-219
TrajectoryPoint(point, r) ==
    [distance |-> point.distance,
     drop |-> ChainValue(DropOrder, point),
     windage |-> ChainValue(WindageOrder, point),
     velocity |-> point.velocity,
     energy |-> ExtractEnergy(point, r),
     time |-> point.time,
     drop_adjustment |-> ChainValue(DropAdjOrder, point),
     windage_adjustment |-> ChainValue(WindageAdjOrder, point)]

\* _convert_trajectory_points raises when a point's conversion does
ConvertRaises(result) == \E i \in DOMAIN result : PointRaises(result[i])

_convert_trajectory_points(result, r) ==
    [i \in DOMAIN result |-> TrajectoryPoint(result[i], r)]

\* lines 141-143: except Exception as e: raise ValueError(f"Calculation error: {str(e)}")
ServiceExcept(e) == ValueError(<<"Calculation error: ">> \o e.text)

\* lines 134-139
CalculationResponse(trajectory_points, zadj) ==
    Response(200, <<"Calculation completed successfully">>, {},
             trajectory_points, zadj, TRUE)

-----------------------------------------------------------------------------
(* app/routers/ballistics.py *)

\* lines 40-52: the two limit checks, each raising HTTPException(400)
LimitCheck(r, cfg) ==
    IF r.max_range > cfg.MAX_RANGE_YARDS
    THEN HTTPException(400, <<"Maximum range cannot exceed ",
                              ToString(cfg.MAX_RANGE_YARDS), " yards">>)
    ELSE IF r.step_size > cfg.MAX_STEP_SIZE
    THEN HTTPException(400, <<"Step size cannot exceed ",
                              ToString(cfg.MAX_STEP_SIZE), " yards">>)
    ELSE NoException

\* lines 63-71: the except clauses around the whole body of the handler
RouterExcept(e) ==
    IF e.type = "ValueError"
    THEN HTTPException(400, e.text)
    ELSE HTTPException(500, <<"An unexpected error occurred during calculation">>)

\* routers lines 87-92: the route is registered with router.get only
ValidateMethods == {"GET"}

\* routers lines 105-107: int((max_range - zero_distance) / step_size) + 1,
\* all three positive, so int() is the floor
EstimatedPoints(r) == (r.max_range - r.zero_distance) \div r.step_size + 1

\* routers lines 109-113: the dict validate_parameters returns
ValidateResponse(points) ==
    [status |-> 200, detail |-> <<"Parameters are valid">>, errors |-> {},
     trajectory |-> NoTrajectory, valid |-> TRUE, estimated_points |-> points]

\* routers lines 115-116: except Exception as e: HTTPException(400, str(e))
ValidateExcept(e) == HTTPException(400, e.text)

\* routers lines 95-116: the body of validate_parameters
ValidateOutcome(r) ==
    IF r.max_range <= r.zero_distance
    THEN ErrorResponse(ValidateExcept(
             HTTPException(400, <<"Maximum range must be greater than zero distance">>)))
    ELSE ValidateResponse(EstimatedPoints(r))

-----------------------------------------------------------------------------
(* The bodies posted, and what the Solver may answer *)

\* the body of tests/test_api.py::test_calculate_trajectory
BaseRequest ==
    [weapon |-> [sight_height |-> 20, twist |-> {12}],
     ammo |-> [bc |-> 5, drag_model |-> "G1", muzzle_velocity |-> 2800,
               bullet_weight |-> {150}, bullet_diameter |-> {}],
     atmosphere |-> [temperature |-> 59, pressure |-> 299, humidity |-> 5,
                     altitude |-> 0],
     wind |-> [speed |-> 10, direction |-> 3],
     zero_distance |-> 100,
     max_range |-> 500,
     step_size |-> 25]

\* bodies with one field outside its declared bound
OutOfBoundRequests ==
    { [BaseRequest EXCEPT !.weapon.sight_height = v] : v \in {-10, 0, 101} }
    \cup { [BaseRequest EXCEPT !.weapon.twist = {v}] : v \in {0, 51} }
    \cup { [BaseRequest EXCEPT !.ammo.bc = v] : v \in {0, 21} }
    \cup { [BaseRequest EXCEPT !.ammo.drag_model = v] : v \in {"G8"} }
    \cup { [BaseRequest EXCEPT !.ammo.muzzle_velocity = v] : v \in {499, 5001} }
    \cup { [BaseRequest EXCEPT !.ammo.bullet_weight = {v}] : v \in {19, 1001} }
    \cup { [BaseRequest EXCEPT !.ammo.bullet_diameter = {v}] : v \in {0, 11} }
    \cup { [BaseRequest EXCEPT !.atmosphere.temperature = v] : v \in {-51, 151} }
    \cup { [BaseRequest EXCEPT !.atmosphere.pressure = v] : v \in {199, 351} }
    \cup { [BaseRequest EXCEPT !.atmosphere.humidity = v] : v \in {-1, 11} }
    \cup { [BaseRequest EXCEPT !.atmosphere.altitude = v] : v \in {-1, 20001} }
    \cup { [BaseRequest EXCEPT !.wind.speed = v] : v \in {-1, 101} }
    \cup { [BaseRequest EXCEPT !.wind.direction = v] : v \in {0, 13} }
    \cup { [BaseRequest EXCEPT !.zero_distance = v] : v \in {24, 501} }
    \cup { [BaseRequest EXCEPT !.max_range = v] : v \in {99, 3001} }
    \cup { [BaseRequest EXCEPT !.step_size = v] : v \in {0, 101} }

\* bodies with every field inside its bound
InBoundRequests ==
    { [BaseRequest EXCEPT !.max_range = mr, !.step_size = st,
                          !.ammo.bullet_weight = bw, !.wind.speed = ws,
                          !.zero_distance = zd] :
        mr \in {100, 500, 2000}, st \in {25, 50, 100}, bw \in {{}, {150}},
        ws \in {0, 10}, zd \in {100} }
    \cup { [BaseRequest EXCEPT !.zero_distance = 500, !.max_range = 200],
           [BaseRequest EXCEPT !.ammo.drag_model = "G7", !.weapon.twist = {}] }

Requests == OutOfBoundRequests \cup InBoundRequests

\* angles set_weapon_zero may return, in mil
ZeroAdjustments == {2}

\* texts of the exceptions py_ballisticcalc may raise
ExcTexts == {"Zero vertical error: no convergence", "Internal solver fault"}

\* distances of raw points, in ticks: the muzzle, a tick past it, one tick
\* short of 25 yd, 25 yd, 30 yd, 50 yd
Distances ==
    {0, 1, 25 * TicksPerYard - 1, 25 * TicksPerYard, 30 * TicksPerYard,
     50 * TicksPerYard}

\* the value an attribute carries when it is a quantity: one per name, so
\* that the output tells which attribute was read
FieldValue ==
    [f \in FieldNames |->
        CASE f = "energy" -> 2600
          [] f = "drop_adj" -> 31
          [] f = "drop_adjustment" -> 32
          [] f = "windage_adj" -> 41
          [] f = "windage_adjustment" -> 42
          [] f = "height" -> 11
          [] f = "slant_height" -> 12
          [] f = "y" -> 13
          [] f = "drop" -> 14
          [] f = "windage" -> 21
          [] f = "z" -> 22]

\* the attributes of py_ballisticcalc's TrajectoryData that the code probes
BaseLayout ==
    [f \in FieldNames |->
        IF f \in {"energy", "drop_adj", "windage_adj", "height", "slant_height",
                  "windage"}
        THEN "val" ELSE "absent"]

DropFields == {"drop", "height", "slant_height", "y"}

\* every subset of the drop-like attributes present
DropLayouts ==
    { [f \in FieldNames |->
          IF f \in DropFields THEN (IF f \in S THEN "val" ELSE "absent")
          ELSE BaseLayout[f]] : S \in SUBSET DropFields }

\* one attribute absent, None, not convertible or present, the rest as usual
DeviationLayouts ==
    { [BaseLayout EXCEPT ![f] = k] : f \in FieldNames, k \in Kinds }

Layouts == DropLayouts \cup DeviationLayouts

\* fire(shot, trajectory_range, ...) covers [0, trajectory_range]: the raw
\* distances of a request include the end of its range
DistancesFor(r) == Distances \cup {r.max_range * TicksPerYard}

\* strictly increasing distance sequences of 1..MaxPoints points
DistanceSeqs(r) ==
    { ds \in UNION { [1..n -> DistancesFor(r)] : n \in 1..MaxPoints } :
        \A i \in 1..(Len(ds) - 1) : ds[i] < ds[i + 1] }

\* a raw point at distance d (ticks): the projectile slows down with range;
\* zero_energy: the Solver reports an energy of 0
RawPoint(d, layout, zero_energy, mv) ==
    [distance |-> d,
     velocity |-> mv - (d \div TicksPerYard) \div 2,
     time |-> d,
     fields |-> [f \in FieldNames |->
                    Attr(layout[f],
                         IF layout[f] # "val" \/ (f = "energy" /\ zero_energy)
                         THEN 0 ELSE FieldValue[f])]]

\* the sequences calculator.fire may return for a request
RawSequences(r) ==
    { [i \in DOMAIN ds |-> RawPoint(ds[i], layout, ze[i], r.ammo.muzzle_velocity)] :
        <<ds, layout, ze>> \in
            { t \in DistanceSeqs(r) \X Layouts \X
                    UNION { [1..n -> BOOLEAN] : n \in 1..MaxPoints } :
                DOMAIN t[1] = DOMAIN t[3] } }

-----------------------------------------------------------------------------
(* The state machine *)

NoShot == BuildShot(BaseRequest, 0)

Init ==
    /\ settings \in SettingsValues
    /\ pc = "idle"
    /\ request = BaseRequest
    /\ shot = NoShot
    /\ calls = <<>>
    /\ exc = NoException
    /\ zero_adjustment = 0
    /\ raw = <<>>
    /\ trajectory_data = <<>>
    /\ response = Response(0, <<>>, {}, NoTrajectory, 0, FALSE)
    /\ waiting = 0
    /\ route = "none"

\* what the event-loop thread is executing: it accepts and dispatches
\* connections, or it is inside the handler.  The route and the service method
\* are both `async def`, the service is awaited directly and calls
\* set_weapon_zero and fire as plain synchronous calls: the coroutine has no
\* suspension point, so the thread stays in it until the response is made
\* (routers lines 33-54, services lines 28-99).
LoopThread == IF pc = "idle" THEN "accepting" ELSE "handler"

\* the event loop accepts a connection: the oldest one waiting, if any,
\* otherwise one that arrives now
Accepted(w) == IF w > 0 THEN w - 1 ELSE 0

\* the state a new request starts from
Fresh(body) ==
    /\ request' = body
    /\ shot' = NoShot
    /\ calls' = <<>>
    /\ exc' = NoException
    /\ zero_adjustment' = 0
    /\ raw' = <<>>
    /\ trajectory_data' = <<>>

\* POST /api/calculate with a body pydantic rejects: 422, the handler never runs
PostRejected(body) ==
    /\ LoopThread = "accepting"
    /\ waiting' = Accepted(waiting)
    /\ SchemaErrors(body) # {}
    /\ Fresh(body)
    /\ response' = ValidationErrorResponse(SchemaErrors(body))
    /\ pc' = "done"
    /\ route' = "POST /api/calculate"
    /\ UNCHANGED settings

\* POST /api/calculate, the handler stopped by a limit check (routers lines 40-52,
\* then the except clauses of lines 63-71)
PostOverLimit(body) ==
    /\ LoopThread = "accepting"
    /\ waiting' = Accepted(waiting)
    /\ SchemaErrors(body) = {}
    /\ LimitCheck(body, settings) # NoException
    /\ Fresh(body)
    /\ response' = ErrorResponse(RouterExcept(LimitCheck(body, settings)))
    /\ pc' = "done"
    /\ route' = "POST /api/calculate"
    /\ UNCHANGED settings

\* POST /api/calculate, up to the call of calculator.set_weapon_zero
\* (routers line 54, services lines 33-84)
PostCalculate(body) ==
    /\ LoopThread = "accepting"
    /\ waiting' = Accepted(waiting)
    /\ SchemaErrors(body) = {}
    /\ LimitCheck(body, settings) = NoException
    /\ request' = body
    /\ shot' = BuildShot(body, 1)
    /\ calls' = << Call("set_weapon_zero", shot', [zero_distance |-> body.zero_distance]) >>
    /\ exc' = NoException
    /\ zero_adjustment' = 0
    /\ raw' = <<>>
    /\ trajectory_data' = <<>>
    /\ response' = Response(0, <<>>, {}, NoTrajectory, 0, FALSE)
    /\ pc' = "zero"
    /\ route' = "POST /api/calculate"
    /\ UNCHANGED settings

\* the service's except clause, then the router's (services lines 141-143,
\* routers lines 63-71)
Fail(e) ==
    /\ exc' = e
    /\ response' = ErrorResponse(RouterExcept(ServiceExcept(e)))
    /\ pc' = "done"

\* set_weapon_zero returns: the shot carries the zero elevation; the service
\* goes on to call calculator.fire (services lines 85-99)
ZeroReturns(adj) ==
    /\ pc = "zero"
    /\ zero_adjustment' = adj
    /\ shot' = [shot EXCEPT !.zero_elevation = {adj}]
    /\ calls' = << [calls[1] EXCEPT !.outcome = "returned", !.shot_after = shot'],
                   Call("fire", ShotForFire(shot', request), FireArgs(request)) >>
    /\ pc' = "fire"
    /\ UNCHANGED <<settings, request, exc, raw, trajectory_data, response, waiting, route>>

\* set_weapon_zero raises
ZeroRaises(text) ==
    /\ pc = "zero"
    /\ calls' = << [calls[1] EXCEPT !.outcome = "raised"] >>
    /\ Fail(SolverError(text))
    /\ UNCHANGED <<settings, request, shot, zero_adjustment, raw, trajectory_data, waiting, route>>

\* calculator.fire raises
FireRaises(text) ==
    /\ pc = "fire"
    /\ calls' = [calls EXCEPT ![2].outcome = "raised"]
    /\ Fail(SolverError(text))
    /\ UNCHANGED <<settings, request, shot, zero_adjustment, raw, trajectory_data, waiting, route>>

\* calculator.fire returns `points`: filter, convert, answer (services lines 101-139)
Finish(points) ==
    /\ calls' = [calls EXCEPT ![2].outcome = "returned"]
    /\ raw' = points
    /\ trajectory_data' = FilterPoints(points, request.step_size)
    /\ IF ConvertRaises(trajectory_data')
       THEN Fail(TypeError(<<"unsupported operand type(s) for >>">>))
       ELSE /\ response' = CalculationResponse(
                               _convert_trajectory_points(trajectory_data', request),
                               zero_adjustment)
            /\ exc' = NoException
            /\ pc' = "done"
    /\ UNCHANGED <<settings, request, shot, zero_adjustment, waiting, route>>

\* calculator.fire returns one of the sequences the Solver may produce
FireReturns ==
    /\ pc = "fire"
    /\ \E points \in RawSequences(request) : Finish(points)

\* a request to /api/validate with a method the route is not registered
\* for: the router answers 405 before the body is looked at
ValidateNotAllowed(method, body) ==
    /\ LoopThread = "accepting"
    /\ method \notin ValidateMethods
    /\ waiting' = Accepted(waiting)
    /\ Fresh(body)
    /\ response' = ErrorResponse(HTTPException(405, <<"Method Not Allowed">>))
    /\ route' = IF method = "GET" THEN "GET /api/validate" ELSE "POST /api/validate"
    /\ pc' = "done"
    /\ UNCHANGED settings

\* /api/validate with a body pydantic rejects: 422
ValidateRejected(method, body) ==
    /\ LoopThread = "accepting"
    /\ method \in ValidateMethods
    /\ SchemaErrors(body) # {}
    /\ waiting' = Accepted(waiting)
    /\ Fresh(body)
    /\ response' = ValidationErrorResponse(SchemaErrors(body))
    /\ route' = IF method = "GET" THEN "GET /api/validate" ELSE "POST /api/validate"
    /\ pc' = "done"
    /\ UNCHANGED settings

\* validate_parameters (routers lines 93-116)
ValidateParameters(method, body) ==
    /\ LoopThread = "accepting"
    /\ method \in ValidateMethods
    /\ SchemaErrors(body) = {}
    /\ waiting' = Accepted(waiting)
    /\ Fresh(body)
    /\ response' = ValidateOutcome(body)
    /\ route' = IF method = "GET" THEN "GET /api/validate" ELSE "POST /api/validate"
    /\ pc' = "done"
    /\ UNCHANGED settings

\* the response has been sent: the handler's locals, the service and its
\* calculator (one per request, routers lines 19-20) are gone
Respond ==
    /\ pc = "done"
    /\ Fresh(BaseRequest)
    /\ response' = Response(0, <<>>, {}, NoTrajectory, 0, FALSE)
    /\ pc' = "idle"
    /\ route' = "none"
    /\ UNCHANGED <<settings, waiting>>

Next ==
    \/ \E body \in Requests : PostRejected(body)
    \/ \E body \in Requests : PostOverLimit(body)
    \/ \E body \in Requests : PostCalculate(body)
    \/ \E adj \in ZeroAdjustments : ZeroReturns(adj)
    \/ \E text \in ExcTexts : ZeroRaises(text)
    \/ \E text \in ExcTexts : FireRaises(text)
    \/ FireReturns
    \/ \E method \in {"GET", "POST"}, body \in Requests : ValidateNotAllowed(method, body)
    \/ \E method \in {"GET", "POST"}, body \in Requests : ValidateRejected(method, body)
    \/ \E method \in {"GET", "POST"}, body \in Requests : ValidateParameters(method, body)
    \/ Respond

Spec == Init /\ [][Next]_vars

\* another client connects while the server is doing whatever it is doing:
\* the connection waits in the listening socket until the event loop accepts it
Connect ==
    /\ waiting < MaxWaiting
    /\ waiting' = waiting + 1
    /\ UNCHANGED <<settings, pc, request, shot, calls, exc, zero_adjustment, raw,
                   trajectory_data, response, route>>

\* the event loop accepts a connection and dispatches its request
Accept ==
    \E body \in Requests :
        \/ PostRejected(body) \/ PostOverLimit(body) \/ PostCalculate(body)
        \/ \E method \in {"GET", "POST"} :
              \/ ValidateNotAllowed(method, body)
              \/ ValidateRejected(method, body)
              \/ ValidateParameters(method, body)

NextConcurrent == Next \/ Connect

\* requests of several clients overlapping in time
SpecConcurrent == Init /\ [][NextConcurrent]_vars

-----------------------------------------------------------------------------
(* Properties *)

\* the declared numeric bounds of app/models/__init__.py, restated field by field
OutsideDeclaredBound(r) ==
    \/ r.weapon.sight_height < 1 \/ r.weapon.sight_height > 100
    \/ \E v \in r.weapon.twist : v < 1 \/ v > 50
    \/ r.ammo.bc < 1 \/ r.ammo.bc > 20
    \/ r.ammo.muzzle_velocity < 500 \/ r.ammo.muzzle_velocity > 5000
    \/ \E v \in r.ammo.bullet_weight : v < 20 \/ v > 1000
    \/ \E v \in r.ammo.bullet_diameter : v < 1 \/ v > 10
    \/ r.atmosphere.temperature < -50 \/ r.atmosphere.temperature > 150
    \/ r.atmosphere.pressure < 200 \/ r.atmosphere.pressure > 350
    \/ r.atmosphere.humidity < 0 \/ r.atmosphere.humidity > 10
    \/ r.atmosphere.altitude < 0 \/ r.atmosphere.altitude > 20000
    \/ r.wind.speed < 0 \/ r.wind.speed > 100
    \/ r.wind.direction < 1 \/ r.wind.direction > 12
    \/ r.zero_distance < 25 \/ r.zero_distance > 500
    \/ r.max_range < 100 \/ r.max_range > 3000
    \/ r.step_size < 1 \/ r.step_size > 100

\* every field individually acceptable
FieldsValid(r) == ~OutsideDeclaredBound(r) /\ r.ammo.drag_model \in {"G1", "G7"}

\* C1: the Solver is driven as set_weapon_zero(shot, zero_distance) and then
\* fire(shot, ...) on the same shot object, exactly as zero-solve left it: at
\* most one call of each per request, fire only after zero-solve has
\* returned, and no fire when zero-solve raised.
C1_ZeroThenFireOnSameShot ==
    /\ Len(calls) <= 2
    /\ Len(calls) >= 1 =>
          /\ calls[1].op = "set_weapon_zero"
          /\ calls[1].args.zero_distance = request.zero_distance
          /\ calls[1].outcome = "raised" => Len(calls) = 1
          /\ calls[1].outcome = "pending" => Len(calls) = 1
    /\ Len(calls) = 2 =>
          /\ calls[2].op = "fire"
          /\ calls[1].outcome = "returned"
          /\ calls[2].shot.id = calls[1].shot.id
          /\ calls[2].shot = calls[1].shot_after
          /\ calls[2].shot.zero_elevation # {}
    /\ pc = "zero" <=> (Len(calls) = 1 /\ calls[1].outcome = "pending")
    /\ pc = "fire" <=> (Len(calls) = 2 /\ calls[2].outcome = "pending")

\* C1 witness: a request whose zero-solve and fire both returned
C1_Witness ==
    /\ pc = "done"
    /\ Len(calls) = 2
    /\ calls[2].outcome = "returned"
    /\ calls[2].shot.zero_elevation = {zero_adjustment}

\* a point is on-step in the specification's sense: within Eps of a multiple
\* of step_size
TolerantOnStep(distance, step_size) ==
    LET m == distance % (step_size * TicksPerYard)
    IN  m < Eps \/ (step_size * TicksPerYard) - m < Eps

\* C2 (as claimed): the sampled output is exactly the subsequence of raw
\* points that are the muzzle point or within epsilon of a multiple of
\* step_size; a point within epsilon of a multiple is never dropped.
C2_SamplerKeepsPointsWithinTolerance ==
    (Len(calls) = 2 /\ calls[2].outcome = "returned") =>
        trajectory_data =
            SelectSeq(raw, LAMBDA p : p.distance = 0
                                      \/ TolerantOnStep(p.distance, request.step_size))

\* the step sizes a request may carry
StepSizes == { r.step_size : r \in InBoundRequests }

\* C3 (as claimed): the arguments of fire do not depend on step_size: they
\* are those of the same request with any other step_size.
C3_FireArgsIndependentOfStepSize ==
    \A i \in DOMAIN calls :
        calls[i].op = "fire" =>
            \A st \in StepSizes :
                calls[i].args = FireArgs([request EXCEPT !.step_size = st])

\* C3 (amended): fire is invoked with trajectory_range = max_range,
\* extra_data = true and trajectory_step = the request's step_size, and the
\* Sampler applies the same step_size to what fire returns.
C3_FireArgsCarryStepSize ==
    /\ \A i \in DOMAIN calls :
          calls[i].op = "fire" =>
              /\ calls[i].args.trajectory_range = request.max_range
              /\ calls[i].args.extra_data = TRUE
              /\ calls[i].args.trajectory_step = request.step_size
    /\ \A i \in DOMAIN trajectory_data :
          trajectory_data[i].distance % (request.step_size * TicksPerYard) = 0

\* C3 witness: fire invoked for a request whose step_size is not the default
C3_Witness ==
    /\ pc = "fire"
    /\ request.step_size = 50
    /\ calls[2].args.trajectory_step = 50

\* C4: a request with a field outside its declared numeric bound is answered
\* 422 and no Solver operation is invoked for it.
C4_OutOfBoundRejectedBeforeSolver ==
    (pc # "idle" /\ route = "POST /api/calculate"
       /\ OutsideDeclaredBound(request)) =>
        /\ pc = "done"
        /\ response.status = 422
        /\ response.errors # {}
        /\ calls = <<>>

\* C4 witness: sight_height = -1.0 rejected
C4_Witness ==
    /\ pc = "done"
    /\ route = "POST /api/calculate"
    /\ request.weapon.sight_height = -10
    /\ response.status = 422
    /\ response.errors = {"weapon.sight_height"}

\* C5 (as claimed): fields individually valid but max_range <= zero_distance
\* is answered with the business-rule client error (400 with a message), not
\* with the schema error, and the Solver is not invoked.
C5_RangeRuleIsBusinessRuleViolation ==
    (pc = "done" /\ route = "POST /api/calculate" /\ FieldsValid(request)
       /\ request.max_range <= request.zero_distance) =>
        /\ response.status = 400
        /\ response.errors = {}
        /\ calls = <<>>

\* C6 (as claimed): a schema-valid request over a configured ceiling is
\* answered 400 with the limit message, and the Solver is never invoked.
C6_OverLimitIsClientError ==
    (pc = "done" /\ route = "POST /api/calculate" /\ FieldsValid(request)
       /\ request.max_range > request.zero_distance
       /\ (request.max_range > settings.MAX_RANGE_YARDS
           \/ request.step_size > settings.MAX_STEP_SIZE)) =>
        /\ response.status = 400
        /\ calls = <<>>

\* C7 (as claimed): when the Solver raised, the response carries none of the
\* Solver's exception text.
C7_SolverTextNotInResponse ==
    (pc = "done" /\ exc.type = "SolverError") =>
        \A i \in DOMAIN response.detail : response.detail[i] \notin ExcTexts

\* C8 (as claimed): an exception that is neither a schema error, a business
\* rule violation nor a Solver failure is answered 500.
C8_UnexpectedErrorIsInternalError ==
    (pc = "done" /\ exc.type \notin {"none", "SolverError"}) =>
        response.status = 500

\* C9 (as claimed): drop comes from the first present of drop, height,
\* slant_height, y, and is 0 when none is present.
C9_DropPriorityDropFirst ==
    response.status = 200 =>
        /\ Len(response.trajectory) = Len(trajectory_data)
        /\ \A i \in DOMAIN trajectory_data :
              response.trajectory[i].drop =
                  ChainValue(<<"drop", "height", "slant_height", "y">>,
                             trajectory_data[i])

\* C9 (amended): drop comes from the first present of height, slant_height,
\* y, drop (a point with both drop and height yields height), and is 0 when
\* none is present.
C9_DropPriorityHeightFirst ==
    response.status = 200 =>
        /\ Len(response.trajectory) = Len(trajectory_data)
        /\ \A i \in DOMAIN trajectory_data :
              LET p == trajectory_data[i]
                  has(f) == p.fields[f].kind # "absent"
              IN  response.trajectory[i].drop =
                      IF has("height") THEN p.fields["height"].v
                      ELSE IF has("slant_height") THEN p.fields["slant_height"].v
                      ELSE IF has("y") THEN p.fields["y"].v
                      ELSE IF has("drop") THEN p.fields["drop"].v
                      ELSE 0

\* C9 witness: a converted point that exposes both drop and height
C9_Witness ==
    /\ response.status = 200
    /\ \E i \in DOMAIN trajectory_data :
          /\ trajectory_data[i].fields["drop"].kind = "val"
          /\ trajectory_data[i].fields["height"].kind = "val"
          /\ response.trajectory[i].drop = FieldValue["height"]

\* C10: a non-zero Solver energy is the output energy; otherwise, with a
\* bullet weight w, the output is 0.5 * (w / 7000) * v^2 / 32.174 for the
\* point's own velocity v; otherwise it is 0.
C10_EnergyWithFallback ==
    response.status = 200 =>
        /\ Len(response.trajectory) = Len(trajectory_data)
        /\ \A i \in DOMAIN trajectory_data :
              LET p == trajectory_data[i]
                  e == p.fields["energy"]
                  out == response.trajectory[i].energy
              IN  IF e.kind = "val" /\ e.v # 0
                  THEN out.num = e.v /\ out.den = 1
                  ELSE IF request.ammo.bullet_weight # {}
                  THEN \A w \in request.ammo.bullet_weight :
                          /\ out.num = w * p.velocity * p.velocity
                          /\ out.den * 1000 = 2 * 7000 * 32174
                  ELSE out.num = 0

\* C10 witness: 150 grains, a point reporting zero energy at 2800 fps:
\* 2610 ft-lb and a fraction
C10_Witness ==
    /\ response.status = 200
    /\ request.ammo.bullet_weight = {150}
    /\ \E i \in DOMAIN trajectory_data :
          /\ trajectory_data[i].fields["energy"] = Attr("val", 0)
          /\ trajectory_data[i].velocity = 2800
          /\ response.trajectory[i].energy.num \div response.trajectory[i].energy.den = 2610

\* C11 (as claimed): once fire has returned, conversion never raises: the
\* request is answered 200 with one TrajectoryPoint per sampled raw point,
\* and a quantity whose attributes are all absent, None or not convertible
\* is 0.
C11_ExtractionNeverRaises ==
    (Len(calls) = 2 /\ calls[2].outcome = "returned") =>
        /\ response.status = 200
        /\ Len(response.trajectory) = Len(trajectory_data)
        /\ \A i \in DOMAIN trajectory_data :
              /\ (\A f \in {"drop_adj", "drop_adjustment"} :
                     trajectory_data[i].fields[f].kind # "val")
                 => response.trajectory[i].drop_adjustment = 0
              /\ (\A f \in {"windage_adj", "windage_adjustment"} :
                     trajectory_data[i].fields[f].kind # "val")
                 => response.trajectory[i].windage_adjustment = 0
              /\ (\A f \in DropFields : trajectory_data[i].fields[f].kind # "val")
                 => response.trajectory[i].drop = 0
              /\ (\A f \in {"windage", "z"} :
                     trajectory_data[i].fields[f].kind # "val")
                 => response.trajectory[i].windage = 0

\* C12 (as claimed): while a Solver call of one request is in progress the
\* event-loop thread is not the one held by it, so a second request that is
\* waiting can be accepted and start its processing.
C12_SolverCallDoesNotBlockAccepting ==
    (pc \in {"zero", "fire"} /\ waiting > 0) =>
        /\ LoopThread = "accepting"
        /\ ENABLED Accept

\* the Solver's raw sequence covers [0, max_range]: it starts at the muzzle
\* and ends at the end of the range
CoversRange(points, r) ==
    /\ points # <<>>
    /\ points[1].distance = 0
    /\ points[Len(points)].distance = r.max_range * TicksPerYard

\* C13: when the Solver returned a sequence covering [0, max_range], the
\* successful response's trajectory is non-empty and its first point has
\* distance 0, whatever the step_size.
C13_MuzzlePointFirst ==
    (response.status = 200 /\ CoversRange(raw, request)) =>
        /\ response.trajectory # <<>>
        /\ response.trajectory[1].distance = 0
        /\ response.trajectory[1].velocity = raw[1].velocity

\* C13 witness: a successful response to a request with step_size 50 whose
\* raw sequence runs from the muzzle to max_range
C13_Witness ==
    /\ response.status = 200
    /\ request.step_size = 50
    /\ CoversRange(raw, request)
    /\ Len(raw) >= 2
    /\ response.trajectory[1].distance = 0

\* C14 (as claimed): /api/validate answers a POST, as well as a GET, that
\* carries a valid request with 200, valid = true and estimated_points =
\* floor((max_range - zero_distance) / step_size) + 1, without any Solver call.
C14_ValidateAnswersPostAndGet ==
    (pc = "done" /\ route \in {"GET /api/validate", "POST /api/validate"}
       /\ FieldsValid(request) /\ request.max_range > request.zero_distance) =>
        /\ response.status = 200
        /\ response.valid = TRUE
        /\ (response.estimated_points - 1) * request.step_size
              <= request.max_range - request.zero_distance
        /\ response.estimated_points * request.step_size
              > request.max_range - request.zero_distance
        /\ calls = <<>>

====
